---- MODULE Spec2Model ----
(***************************************************************************)
(* Model of weclappocr.py: the mail -> PDF -> weclapp OCR importer.        *)
(*                                                                         *)
(* Two threads can execute main(): the background timer thread            *)
(* (background_task) and the Flask worker serving GET /run.  Every         *)
(* outbound HTTP request is one atomic step whose outcome (2xx, or a       *)
(* requests.exceptions.RequestException) is chosen by the environment.     *)
(* A request that fails has no effect on the mailbox.                      *)
(*                                                                         *)
(* Text values whose characters matter (content types, attachment names)   *)
(* are sequences of one-character strings.                                 *)
(***************************************************************************)
EXTENDS Integers, Sequences, FiniteSets, TLC

(* ------------------------------------------------------------------ *)
(* Bounds of the model                                                 *)
(* ------------------------------------------------------------------ *)
MaxMsgs == 2        \* messages that can sit in the source folder
MaxRuns == 2        \* runs of main() started over the life of the process

(* ------------------------------------------------------------------ *)
(* Program constants                                                   *)
(* ------------------------------------------------------------------ *)
max_retries == 3

FOLDER_NAME == "Rechnungen"

ARCHIVE_NAMES == {"Archiv", "Archive"}

FILE_ATTACHMENT == "#microsoft.graph.fileAttachment"

ITEM_ATTACHMENT == "#microsoft.graph.itemAttachment"

PDF_TYPE == <<"a","p","p","l","i","c","a","t","i","o","n","/","p","d","f">>

None == "None"

Threads == {"timer", "http"}

(* ------------------------------------------------------------------ *)
(* str.lower()                                                         *)
(* ------------------------------------------------------------------ *)
UpperAlpha == <<"A","B","C","D","E","F","G","H","I","J","K","L","M",
                "N","O","P","Q","R","S","T","U","V","W","X","Y","Z">>

LowerAlpha == <<"a","b","c","d","e","f","g","h","i","j","k","l","m",
                "n","o","p","q","r","s","t","u","v","w","x","y","z">>

LowerChar(c) ==
    IF \E k \in DOMAIN UpperAlpha : UpperAlpha[k] = c
    THEN LowerAlpha[CHOOSE k \in DOMAIN UpperAlpha : UpperAlpha[k] = c]
    ELSE c

Lower(s) == [k \in DOMAIN s |-> LowerChar(s[k])]

(* ------------------------------------------------------------------ *)
(* The mailbox the environment offers                                  *)
(* ------------------------------------------------------------------ *)
PdfUpper == <<"A","p","p","l","i","c","a","t","i","o","n","/","P","D","F">>

TextPlain == <<"t","e","x","t","/","p","l","a","i","n">>

NameInvoice == <<"i","n","v","o","i","c","e">>

NameInvoicePdf == <<"i","n","v","o","i","c","e",".","P","d","f">>

NameNotes == <<"n","o","t","e","s",".","t","x","t">>

Att(kind, ctype, name) ==
    [odata_type |-> kind, contentType |-> ctype, name |-> name]

\* Attachment lists a message of the mailbox can carry.
AttLists ==
    { <<Att(FILE_ATTACHMENT, PDF_TYPE, NameInvoice),
        Att(FILE_ATTACHMENT, PdfUpper, NameInvoice)>>,
      <<Att(FILE_ATTACHMENT, TextPlain, NameNotes),
        Att(ITEM_ATTACHMENT, PDF_TYPE, NameInvoicePdf)>>,
      <<Att(FILE_ATTACHMENT, TextPlain, NameNotes),
        Att(FILE_ATTACHMENT, PdfUpper, NameInvoicePdf)>> }

Folder(id, displayName) == [id |-> id, displayName |-> displayName]

\* Folder lists of the mailbox (the answer to GET .../mailFolders).
FolderLists ==
    { <<Folder("f1", FOLDER_NAME), Folder("f2", "Archiv")>>,
      <<Folder("f3", "Archive"), Folder("f1", FOLDER_NAME), Folder("f2", "Archiv")>>,
      <<Folder("f1", FOLDER_NAME), Folder("f4", "archive")>>,
      <<Folder("f2", "Archiv"), Folder("f5", "rechnungen")>> }

Msgs == 1..MaxMsgs

VARIABLES
    folders,    \* the mailbox's folder list
    atts,       \* atts[m]: the attachment list of message m
    location,   \* location[m]: id of the folder holding m, or None
    runs,       \* number of runs of main() started so far
    pc,         \* pc[t]: the request thread t is about to issue
    loc,        \* loc[t]: the local variables of t's run
    obs         \* obs[t]: what t's current run has requested so far

vars == <<folders, atts, location, runs, pc, loc, obs>>


(* ------------------------------------------------------------------ *)
(* Helpers: Python values                                              *)
(* ------------------------------------------------------------------ *)
\* next((f['id'] for f in folders['value'] if f['displayName'] in names), None)
FirstFolderId(fs, names) ==
    IF \E k \in DOMAIN fs : fs[k].displayName \in names
    THEN LET first == CHOOSE k \in DOMAIN fs :
                        /\ fs[k].displayName \in names
                        /\ \A h \in DOMAIN fs : fs[h].displayName \in names => k <= h
         IN  fs[first].id
    ELSE None

\* d[k] = v on a dict kept in insertion order
DictSet(d, k, v) ==
    IF \E h \in DOMAIN d : d[h].key = k
    THEN [h \in DOMAIN d |-> IF d[h].key = k THEN [key |-> k, value |-> v] ELSE d[h]]
    ELSE Append(d, [key |-> k, value |-> v])

\* The messages of folder fid, in listing order.
RECURSIVE ListFrom(_, _)
ListFrom(m, fid) ==
    IF m > MaxMsgs THEN <<>>
    ELSE IF location[m] = fid THEN <<m>> \o ListFrom(m + 1, fid)
    ELSE ListFrom(m + 1, fid)

\* Mutant of MessagesIn: the messages of every folder of the mailbox are
\* listed (GET .../messages without the folder).
RECURSIVE ListAllFrom(_)
ListAllFrom(m) ==
    IF m > MaxMsgs THEN <<>>
    ELSE IF location[m] # None THEN <<m>> \o ListAllFrom(m + 1)
    ELSE ListAllFrom(m + 1)

MessagesIn_AllFolders(fid) == ListAllFrom(1)

\* line 65: the messages of folder fid
MessagesIn(fid) == ListFrom(1, fid)

(* ------------------------------------------------------------------ *)
(* process_attachments: the scan of one message's attachments          *)
(* ------------------------------------------------------------------ *)
\* Mutant of IsPdfAttachment: the media type is not looked at.
IsPdfAttachment_AnyFile(attachment) ==
    attachment.odata_type = FILE_ATTACHMENT

\* line 108: the filter
IsPdfAttachment(attachment) ==
    /\ attachment.odata_type = FILE_ATTACHMENT
    /\ Lower(attachment.contentType) = PDF_TYPE

\* Mutant of UploadKey: the counter is left out of the key.
UploadKey_Fixed(attachment_counter) == <<"file", 1>>

\* line 110: f'file{attachment_counter}'
UploadKey(attachment_counter) == <<"file", attachment_counter>>

\* line 110: (attachment['name'], BytesIO(pdf_bytes), 'application/pdf')
PdfEntry(attachment) == [filename |-> attachment.name, content_type |-> PDF_TYPE]

\* Mutant of NextAttachmentCounter: the counter is not advanced.
NextAttachmentCounter_Stuck(attachment_counter) == attachment_counter

\* line 112
NextAttachmentCounter(attachment_counter) == attachment_counter + 1

\* lines 105-113: st = [pdf_attachments, attachment_counter, has_pdf, keys],
\* keys being the upload keys assigned during the scan.
RECURSIVE CollectPdfs(_, _)
CollectPdfs(attachments, st) ==
    IF attachments = <<>> THEN st
    ELSE LET attachment == Head(attachments) IN
         IF IsPdfAttachment(attachment)
         THEN CollectPdfs(Tail(attachments),
                [pdf_attachments |->
                     DictSet(st.pdf_attachments, UploadKey(st.attachment_counter),
                             PdfEntry(attachment)),
                 attachment_counter |-> NextAttachmentCounter(st.attachment_counter),
                 has_pdf |-> TRUE,
                 keys |-> Append(st.keys, UploadKey(st.attachment_counter))])
         ELSE CollectPdfs(Tail(attachments), st)

\* lines 115-116
ArchiveCandidates(message_ids_to_archive, msg, has_pdf) ==
    IF has_pdf THEN Append(message_ids_to_archive, msg) ELSE message_ids_to_archive

\* Mutant of AfterExtraction: the uploader is called whatever was collected.
AfterExtraction_AlwaysUpload(pdf_attachments) == "upload"

\* line 118: what process_attachments does once every message is scanned
AfterExtraction(pdf_attachments) ==
    IF pdf_attachments # <<>> THEN "upload" ELSE "return"

\* lines 137-151: what the retry loop of upload_multiple_to_weclapp does after
\* an attempt: leave the loop and return (break, or the last attempt failed),
\* or sleep and try again.
AfterUploadAttempt(ok, attempt) ==
    IF ok THEN "return"
    ELSE IF attempt < max_retries THEN "retry"
    ELSE "return"

\* Mutant of AfterFetchEmails: an empty listing is treated as an error.
AfterFetchEmails_EmptyIsError(messages) ==
    IF messages # <<>> THEN "process" ELSE "raise"

\* lines 158-161: main after fetch_emails returned
AfterFetchEmails(messages) ==
    IF messages # <<>> THEN "process" ELSE "return"

\* Mutant of SourceFolderMissing: the lookup's result is not checked.
SourceFolderMissing_Unchecked(folder_id) == FALSE

\* line 62: if not folder_id
SourceFolderMissing(folder_id) == folder_id = None

\* Mutant of AttachmentFetchRaises: a failed request is swallowed and the
\* message is treated as having no attachments.
AttachmentFetchRaises_Swallowed(ok) == FALSE

\* line 103: response.raise_for_status() (and the exceptions of line 102)
AttachmentFetchRaises(ok) == ~ok

\* Mutant of AfterFailedAttempt: the attempt number is not compared with
\* max_retries.
AfterFailedAttempt_Unbounded(attempt) == "retry"

\* lines 44-50, 70-76: the except clause of a retry loop
AfterFailedAttempt(attempt) ==
    IF attempt < max_retries THEN "retry" ELSE "raise"

(* ------------------------------------------------------------------ *)
(* Initial state                                                       *)
(* ------------------------------------------------------------------ *)
LocInit ==
    [attempt |-> 0, folder_id |-> None, messages |-> <<>>, i |-> 0,
     pdf_attachments |-> <<>>, attachment_counter |-> 1,
     message_ids_to_archive |-> <<>>, j |-> 0, archive_folder_id |-> None]

ObsInit ==
    [listed |-> FALSE, att_fetches |-> 0, fetch_failed |-> FALSE, keys |-> <<>>,
     upload_posts |-> 0, upload_sleeps |-> 0, upload_ok |-> FALSE,
     archive_calls |-> <<>>, move_requests |-> <<>>, outcome |-> "none"]

Init ==
    /\ folders \in FolderLists
    /\ \E n \in 0..MaxMsgs :
         LET src == FirstFolderId(folders, {FOLDER_NAME}) IN
         /\ src = None => n = 0
         /\ location = [m \in Msgs |-> IF m <= n THEN src ELSE None]
         /\ atts \in [Msgs -> AttLists \cup {<<>>}]
         /\ \A m \in Msgs : (atts[m] = <<>>) <=> (m > n)
    /\ runs = 0
    /\ pc = [t \in Threads |-> IF t = "timer" THEN "loop" ELSE "idle"]
    /\ loc = [t \in Threads |-> LocInit]
    /\ obs = [t \in Threads |-> ObsInit]

(* ------------------------------------------------------------------ *)
(* Steps shared by the handlers                                        *)
(* ------------------------------------------------------------------ *)
mailbox == <<folders, atts, location>>

\* Mutant of RaiseFrom: main has no except clause, the exception leaves main
\* and ends the thread that called it.
RaiseFrom_Uncaught(t, o) ==
    /\ pc' = [pc EXCEPT ![t] = "terminated"]
    /\ obs' = [obs EXCEPT ![t] = [o EXCEPT !.outcome = "error"]]
    /\ loc' = loc

\* An exception leaves the call stack up to main's except clause (lines
\* 162-163), after which main returns; o is what the run has requested.
RaiseFrom(t, o) ==
    /\ pc' = [pc EXCEPT ![t] = "done"]
    /\ obs' = [obs EXCEPT ![t] = [o EXCEPT !.outcome = "error"]]
    /\ loc' = loc

Raise(t) == RaiseFrom(t, obs[t])

\* A request naming message m by its id is answered only while m is still
\* in the folder it was listed in (a moved message gets a new id).
Outcomes(t, m) ==
    IF location[m] = loc[t].folder_id THEN BOOLEAN ELSE {FALSE}

(* ------------------------------------------------------------------ *)
(* Triggers                                                            *)
(* ------------------------------------------------------------------ *)
\* main() entered: authenticate_graph starts its first attempt.
EnterMain(t) ==
    /\ runs < MaxRuns
    /\ runs' = runs + 1
    /\ pc' = [pc EXCEPT ![t] = "authenticate"]
    /\ loc' = [loc EXCEPT ![t] = [LocInit EXCEPT !.attempt = 1]]
    /\ obs' = [obs EXCEPT ![t] = ObsInit]
    /\ UNCHANGED mailbox

\* background_task, lines 177-179
TimerRun ==
    /\ pc["timer"] = "loop"
    /\ EnterMain("timer")

\* run(), lines 171-173
HttpRun ==
    /\ pc["http"] = "idle"
    /\ EnterMain("http")

(* ------------------------------------------------------------------ *)
(* authenticate_graph, lines 30-50                                     *)
(* ------------------------------------------------------------------ *)
\* POST to the token endpoint (line 40), attempt loc[t].attempt.
Authenticate(t) ==
    /\ pc[t] = "authenticate"
    /\ \E ok \in BOOLEAN :
         IF ok
         THEN \* line 43: token returned; fetch_emails starts its first attempt
              /\ pc' = [pc EXCEPT ![t] = "folders"]
              /\ loc' = [loc EXCEPT ![t].attempt = 1]
              /\ obs' = obs
         ELSE IF AfterFailedAttempt(loc[t].attempt) = "retry"
         THEN \* lines 46-48: sleep, next attempt
              /\ loc' = [loc EXCEPT ![t].attempt = @ + 1]
              /\ UNCHANGED <<pc, obs>>
         ELSE Raise(t)
    /\ UNCHANGED <<mailbox, runs>>

(* ------------------------------------------------------------------ *)
(* fetch_emails, lines 53-76                                           *)
(* ------------------------------------------------------------------ *)
\* lines 70-76: a RequestException inside the try block
FetchFailed(t) ==
    IF AfterFailedAttempt(loc[t].attempt) = "retry"
    THEN /\ pc' = [pc EXCEPT ![t] = "folders"]
         /\ loc' = [loc EXCEPT ![t].attempt = @ + 1]
         /\ obs' = obs
    ELSE Raise(t)

\* GET .../mailFolders (line 58) and the lookup of the source folder.
ListFolders(t) ==
    /\ pc[t] = "folders"
    /\ \E ok \in BOOLEAN :
         IF ok
         THEN LET folder_id == FirstFolderId(folders, {FOLDER_NAME}) IN
              IF SourceFolderMissing(folder_id)
              THEN Raise(t)      \* line 63: not a RequestException, no retry
              ELSE /\ pc' = [pc EXCEPT ![t] = "messages"]
                   /\ loc' = [loc EXCEPT ![t].folder_id = folder_id]
                   /\ obs' = obs
         ELSE FetchFailed(t)
    /\ UNCHANGED <<mailbox, runs>>

\* GET .../mailFolders/{folder_id}/messages (line 65); on success fetch_emails
\* returns and main goes on (lines 158-161).
ListMessages(t) ==
    /\ pc[t] = "messages"
    /\ \E ok \in BOOLEAN :
         IF ok
         THEN LET messages == MessagesIn(loc[t].folder_id) IN
              IF AfterFetchEmails(messages) = "process"
              THEN \* line 159: process_attachments, lines 96-101
                   /\ pc' = [pc EXCEPT ![t] = "attachments"]
                   /\ loc' = [loc EXCEPT ![t].attempt = 0,
                                         ![t].messages = messages,
                                         ![t].i = 1,
                                         ![t].pdf_attachments = <<>>,
                                         ![t].message_ids_to_archive = <<>>,
                                         ![t].attachment_counter = 1]
                   /\ obs' = [obs EXCEPT ![t].listed = TRUE]
              ELSE \* line 161, or an exception on the way there (line 162)
                   /\ pc' = [pc EXCEPT ![t] = "done"]
                   /\ loc' = [loc EXCEPT ![t].attempt = 0, ![t].messages = messages]
                   /\ obs' = [obs EXCEPT
                               ![t].listed = TRUE,
                               ![t].outcome =
                                   IF AfterFetchEmails(messages) = "return"
                                   THEN "ok" ELSE "error"]
         ELSE FetchFailed(t)
    /\ UNCHANGED <<mailbox, runs>>

(* ------------------------------------------------------------------ *)
(* process_attachments, lines 95-123                                   *)
(* ------------------------------------------------------------------ *)
\* The call archive_email(access_token, ids[j]) of line 121, up to its first request.
CallArchive(t, l, o, j) ==
    /\ pc' = [pc EXCEPT ![t] = "archive_folders"]
    /\ loc' = [loc EXCEPT ![t] = [l EXCEPT !.j = j, !.archive_folder_id = None]]
    /\ obs' = [obs EXCEPT ![t] =
                 [o EXCEPT !.archive_calls = Append(@, l.message_ids_to_archive[j])]]

\* GET .../messages/{id}/attachments for messages[i] (line 102), the scan of
\* the answer (lines 104-116) and, after the last message, line 118.
FetchAttachments(t) ==
    /\ pc[t] = "attachments"
    /\ LET msg == loc[t].messages[loc[t].i]
       IN
       \E ok \in Outcomes(t, msg) :
         LET o == [obs[t] EXCEPT !.att_fetches = @ + 1,
                                 !.fetch_failed = @ \/ ~ok]
         IN
         IF ~AttachmentFetchRaises(ok)
         THEN \* attachments['value'] is atts[msg] when the request was answered
              LET r == CollectPdfs(IF ok THEN atts[msg] ELSE <<>>,
                         [pdf_attachments |-> loc[t].pdf_attachments,
                          attachment_counter |-> loc[t].attachment_counter,
                          has_pdf |-> FALSE,
                          keys |-> <<>>])
                  l == [loc[t] EXCEPT
                          !.pdf_attachments = r.pdf_attachments,
                          !.attachment_counter = r.attachment_counter,
                          !.message_ids_to_archive =
                              ArchiveCandidates(@, msg, r.has_pdf)]
                  o2 == [o EXCEPT !.keys = @ \o r.keys]
              IN
              IF loc[t].i < Len(loc[t].messages)
              THEN /\ loc' = [loc EXCEPT ![t] = [l EXCEPT !.i = @ + 1]]
                   /\ obs' = [obs EXCEPT ![t] = o2]
                   /\ pc' = pc
              ELSE IF AfterExtraction(l.pdf_attachments) = "upload"
              THEN \* line 119: upload_multiple_to_weclapp, first attempt
                   /\ pc' = [pc EXCEPT ![t] = "upload"]
                   /\ loc' = [loc EXCEPT ![t] = [l EXCEPT !.attempt = 1]]
                   /\ obs' = [obs EXCEPT ![t] = o2]
              ELSE \* line 123
                   /\ pc' = [pc EXCEPT ![t] = "done"]
                   /\ loc' = [loc EXCEPT ![t] = l]
                   /\ obs' = [obs EXCEPT ![t] = [o2 EXCEPT !.outcome = "ok"]]
         ELSE \* line 103: raise_for_status, caught only by main
              RaiseFrom(t, o)
    /\ UNCHANGED <<mailbox, runs>>

(* ------------------------------------------------------------------ *)
(* upload_multiple_to_weclapp, lines 126-151                           *)
(* ------------------------------------------------------------------ *)
\* One POST of the multipart body (line 139), attempt loc[t].attempt.  When
\* the loop is left the function returns and process_attachments goes on
\* with the archive loop (line 120).
UploadPost(t) ==
    /\ pc[t] = "upload"
    /\ \E ok \in BOOLEAN :
         LET o == [obs[t] EXCEPT !.upload_posts = @ + 1,
                                 !.upload_ok = ok]
         IN
         IF AfterUploadAttempt(ok, loc[t].attempt) = "retry"
         THEN \* lines 147-149
              /\ loc' = [loc EXCEPT ![t].attempt = @ + 1]
              /\ obs' = [obs EXCEPT ![t] = [o EXCEPT !.upload_sleeps = @ + 1]]
              /\ pc' = pc
         ELSE CallArchive(t, [loc[t] EXCEPT !.attempt = 0], o, 1)
    /\ UNCHANGED <<mailbox, runs>>

(* ------------------------------------------------------------------ *)
(* archive_email, lines 79-92                                          *)
(* ------------------------------------------------------------------ *)
\* GET .../mailFolders (line 81) and the lookup of the archive folder.
ArchiveFolders(t) ==
    /\ pc[t] = "archive_folders"
    /\ \E ok \in BOOLEAN :
         IF ok
         THEN LET archive_folder_id == FirstFolderId(folders, ARCHIVE_NAMES) IN
              IF archive_folder_id = None
              THEN Raise(t)      \* line 86
              ELSE /\ pc' = [pc EXCEPT ![t] = "archive_move"]
                   /\ loc' = [loc EXCEPT ![t].archive_folder_id = archive_folder_id]
                   /\ obs' = obs
         ELSE Raise(t)           \* line 82
    /\ UNCHANGED <<mailbox, runs>>

\* POST .../messages/{message_id}/move (line 90); on success archive_email
\* returns and the loop of line 120 goes on.
ArchiveMove(t) ==
    /\ pc[t] = "archive_move"
    /\ LET message_id == loc[t].message_ids_to_archive[loc[t].j]
           o == [obs[t] EXCEPT !.move_requests = Append(@, message_id)]
       IN
       \E ok \in Outcomes(t, message_id) :
         IF ok
         THEN /\ location' = [location EXCEPT ![message_id] = loc[t].archive_folder_id]
              /\ IF loc[t].j < Len(loc[t].message_ids_to_archive)
                 THEN CallArchive(t, loc[t], o, loc[t].j + 1)
                 ELSE /\ pc' = [pc EXCEPT ![t] = "done"]
                      /\ loc' = loc
                      /\ obs' = [obs EXCEPT ![t] = [o EXCEPT !.outcome = "ok"]]
         ELSE \* line 91
              /\ RaiseFrom(t, o)
              /\ location' = location
    /\ UNCHANGED <<folders, atts, runs>>

(* ------------------------------------------------------------------ *)
(* main returns to its caller                                          *)
(* ------------------------------------------------------------------ *)
\* background_task, lines 180-183: main returned, the 60 minute countdown
\* runs and the loop starts over.
TimerCountdown ==
    /\ pc["timer"] = "done"
    /\ pc' = [pc EXCEPT !["timer"] = "loop"]
    /\ loc' = [loc EXCEPT !["timer"] = LocInit]
    /\ obs' = [obs EXCEPT !["timer"] = ObsInit]
    /\ UNCHANGED <<mailbox, runs>>

\* run(), line 174: main returned, the request is answered with 200.
HttpRespond ==
    /\ pc["http"] = "done"
    /\ pc' = [pc EXCEPT !["http"] = "idle"]
    /\ loc' = [loc EXCEPT !["http"] = LocInit]
    /\ obs' = [obs EXCEPT !["http"] = ObsInit]
    /\ UNCHANGED <<mailbox, runs>>

Next ==
    \/ TimerRun
    \/ HttpRun
    \/ \E t \in Threads : Authenticate(t)
    \/ \E t \in Threads : ListFolders(t)
    \/ \E t \in Threads : ListMessages(t)
    \/ \E t \in Threads : FetchAttachments(t)
    \/ \E t \in Threads : UploadPost(t)
    \/ \E t \in Threads : ArchiveFolders(t)
    \/ \E t \in Threads : ArchiveMove(t)
    \/ TimerCountdown
    \/ HttpRespond

Spec == Init /\ [][Next]_vars

\* The answer to the pending request of thread t's run (each request returns
\* or times out: timeout=10, timeout=60).
RunStep(t) ==
    \/ Authenticate(t)
    \/ ListFolders(t)
    \/ ListMessages(t)
    \/ FetchAttachments(t)
    \/ UploadPost(t)
    \/ ArchiveFolders(t)
    \/ ArchiveMove(t)

(* ------------------------------------------------------------------ *)
(* Vocabulary of the properties                                        *)
(* ------------------------------------------------------------------ *)
\* s and u are equal up to the case of their letters.
SameIgnoringCase(s, u) ==
    /\ Len(s) = Len(u)
    /\ \A k \in 1..Len(s) : LowerChar(s[k]) = LowerChar(u[k])

\* An attachment that is a file attachment of media type application/pdf.
Qualifying(a) ==
    /\ a.odata_type = FILE_ATTACHMENT
    /\ SameIgnoringCase(a.contentType, PDF_TYPE)

\* Number of qualifying attachments of each attachment list of the mailbox.
QualifyingIn ==
    [l \in AttLists \cup {<<>>} |->
        Cardinality({k \in DOMAIN l : Qualifying(l[k])})]

\* Number of qualifying attachments of message m.
QualifyingCount(m) == QualifyingIn[atts[m]]

\* Message m carries at least one qualifying attachment.
HasQualifyingPdf(m) == QualifyingCount(m) >= 1

RECURSIVE SumQualifying(_)
SumQualifying(ms) ==
    IF ms = <<>> THEN 0 ELSE QualifyingCount(Head(ms)) + SumQualifying(Tail(ms))

\* Number of times x occurs in the sequence q.
Occurrences(q, x) == Cardinality({k \in DOMAIN q : q[k] = x})

\* Thread t is inside main(), between its first request and its end.
Running(t) ==
    pc[t] \in {"authenticate", "folders", "messages", "attachments",
               "upload", "archive_folders", "archive_move"}

\* Every attempt of t's batch upload has failed.
UploadExhausted(t) ==
    /\ obs[t].upload_posts = max_retries
    /\ ~obs[t].upload_ok

\* t's run has finished extraction: its batch is complete.
BatchComplete(t) == pc[t] \in {"upload", "archive_folders", "archive_move"}

(* ------------------------------------------------------------------ *)
(* Properties                                                          *)
(* ------------------------------------------------------------------ *)
\* C1: a run whose upload failed on all 3 attempts issues no move request.
C1_NoMoveAfterFailedUpload ==
    \A t \in Threads : UploadExhausted(t) => obs[t].move_requests = <<>>

\* C2: at the end of a run whose upload succeeded, every listed message with
\* a qualifying PDF has been passed to archive_email exactly once.
C2_EachCandidateArchivedOnce ==
    \A t \in Threads :
        (pc[t] = "done" /\ obs[t].upload_ok) =>
            \A k \in DOMAIN loc[t].messages :
                HasQualifyingPdf(loc[t].messages[k]) =>
                    Occurrences(obs[t].archive_calls, loc[t].messages[k]) = 1

\* C3: archive_email is never called, and no move is requested, for a message
\* without a qualifying PDF attachment.
C3_NoPdfNeverArchived ==
    \A t \in Threads :
        /\ \A k \in DOMAIN obs[t].archive_calls :
               HasQualifyingPdf(obs[t].archive_calls[k])
        /\ \A k \in DOMAIN obs[t].move_requests :
               HasQualifyingPdf(obs[t].move_requests[k])

\* C3 witness: a run with a successful upload has ended, one of its listed
\* messages has no qualifying PDF and another one was passed to archive_email.
C3_Witness ==
    \E t \in Threads :
        /\ pc[t] = "done"
        /\ obs[t].upload_ok
        /\ obs[t].outcome = "ok"
        /\ obs[t].archive_calls # <<>>
        /\ \E k \in DOMAIN loc[t].messages : ~HasQualifyingPdf(loc[t].messages[k])

\* C4: at most one run of main() is executing at any time.
C4_AtMostOneRun ==
    Cardinality({t \in Threads : Running(t)}) <= 1

\* C5: once all 3 upload attempts have failed (3 POSTs, 2 delays), the failure
\* reaches main: the run is at its end and has failed.
C5_ExhaustedUploadFailsRun ==
    \A t \in Threads :
        UploadExhausted(t) =>
            /\ obs[t].upload_posts = 3
            /\ obs[t].upload_sleeps = 2
            /\ pc[t] = "done"
            /\ obs[t].outcome = "error"

\* C6: without a folder named "Archiv" or "Archive" a run lists no messages,
\* posts no upload and requests no move.
C6_NoArchiveFolderNoSideEffects ==
    FirstFolderId(folders, ARCHIVE_NAMES) = None =>
        \A t \in Threads :
            /\ ~obs[t].listed
            /\ obs[t].upload_posts = 0
            /\ obs[t].move_requests = <<>>

\* C7: at the end of a run whose upload succeeded with at least 2 archive
\* candidates, archive_email has been called for every candidate, in order,
\* and the run has not failed.
C7_ArchiveFailureIsolated ==
    \A t \in Threads :
        (/\ pc[t] = "done"
         /\ obs[t].upload_ok
         /\ Len(loc[t].message_ids_to_archive) >= 2) =>
            /\ obs[t].archive_calls = loc[t].message_ids_to_archive
            /\ obs[t].outcome # "error"

\* C8: when a run whose upload failed on all attempts has ended, every
\* message with PDFs it listed is still in the source folder.
C8_FailedUploadLeavesMessages ==
    \A t \in Threads :
        (pc[t] = "done" /\ UploadExhausted(t)) =>
            \A k \in DOMAIN loc[t].messages :
                HasQualifyingPdf(loc[t].messages[k]) =>
                    location[loc[t].messages[k]] = loc[t].folder_id

\* C9: a run whose listing returned zero messages fetches no attachment, posts
\* no upload, requests no move and ends without an error.
C9_EmptyFolderNoRequests ==
    \A t \in Threads :
        (obs[t].listed /\ loc[t].messages = <<>>) =>
            /\ obs[t].att_fetches = 0
            /\ obs[t].upload_posts = 0
            /\ obs[t].archive_calls = <<>>
            /\ obs[t].move_requests = <<>>
            /\ pc[t] = "done"
            /\ obs[t].outcome = "ok"

\* C9 witness: a run has listed an empty source folder and has ended.
C9_Witness ==
    \E t \in Threads :
        /\ pc[t] = "done"
        /\ obs[t].listed
        /\ loc[t].messages = <<>>
        /\ obs[t].outcome = "ok"

\* C10: the upload keys assigned in a run are pairwise distinct, the batch
\* holds one part per assigned key, and once extraction is complete the
\* number of parts is the number of qualifying attachments of the listed
\* messages.
C10_UploadKeysDistinct ==
    \A t \in Threads :
        /\ \A a, b \in DOMAIN obs[t].keys :
               a # b => obs[t].keys[a] # obs[t].keys[b]
        /\ Len(loc[t].pdf_attachments) = Len(obs[t].keys)
        /\ BatchComplete(t) =>
               Len(loc[t].pdf_attachments) = SumQualifying(loc[t].messages)

\* C10 witness: a complete batch of at least 3 parts in which two parts of
\* one message and two parts of different messages carry the same filename.
C10_Witness ==
    \E t \in Threads :
        /\ pc[t] = "upload"
        /\ Len(loc[t].pdf_attachments) >= 3
        /\ Len(loc[t].message_ids_to_archive) >= 2
        /\ \A a, b \in DOMAIN loc[t].pdf_attachments :
               loc[t].pdf_attachments[a].value.filename =
                   loc[t].pdf_attachments[b].value.filename

\* name ends with ".pdf", whatever the case of its letters.
EndsWithPdf(name) ==
    /\ Len(name) >= 4
    /\ Lower(SubSeq(name, Len(name) - 3, Len(name))) = <<".", "p", "d", "f">>

\* C11: every part of the batch has a filename that ends, ignoring case,
\* with ".pdf".
C11_FilenamesEndWithPdf ==
    \A t \in Threads :
        \A k \in DOMAIN loc[t].pdf_attachments :
            EndsWithPdf(loc[t].pdf_attachments[k].value.filename)

\* C12: when no folder is named FOLDER_NAME, a run never gets past the folder
\* lookup: it requests no message list, fetches no attachment, posts no upload
\* and requests no move, and it ends as failed.
C12_NoSourceFolderNoRequests ==
    FirstFolderId(folders, {FOLDER_NAME}) = None =>
        \A t \in Threads :
            /\ pc[t] \notin {"messages", "attachments", "upload",
                             "archive_folders", "archive_move"}
            /\ ~obs[t].listed
            /\ obs[t].att_fetches = 0
            /\ obs[t].upload_posts = 0
            /\ obs[t].archive_calls = <<>>
            /\ obs[t].move_requests = <<>>
            /\ pc[t] = "done" => obs[t].outcome = "error"

\* C12 witness: the folder list was received at the first attempt, holds no
\* folder named FOLDER_NAME, and the run has ended as failed.
C12_Witness ==
    /\ FirstFolderId(folders, {FOLDER_NAME}) = None
    /\ \E t \in Threads :
           /\ pc[t] = "done"
           /\ obs[t].outcome = "error"
           /\ loc[t].attempt = 1

\* Both folders exist and no message has been moved: a request of a run can
\* then fail only by a transient failure.
OnlyTransientFailures ==
    /\ FirstFolderId(folders, {FOLDER_NAME}) # None
    /\ FirstFolderId(folders, ARCHIVE_NAMES) # None
    /\ \A m \in Msgs : location[m] \in {None, FirstFolderId(folders, {FOLDER_NAME})}

\* C13: a failed request ends the run only when it was the 3rd attempt of
\* that request; no request is given up after fewer attempts.
C13_EveryCallRetried ==
    [][\A t \in Threads :
          (/\ OnlyTransientFailures
           /\ Running(t)
           /\ pc'[t] = "done"
           /\ obs'[t].outcome = "error") => loc[t].attempt = max_retries]_vars

\* C14: once the attachment request of a message has failed, the run is at
\* its end and has failed, and it has posted no upload, called archive_email
\* for no message and requested no move.
C14_FailedFetchAbortsRun ==
    \A t \in Threads :
        obs[t].fetch_failed =>
            /\ pc[t] = "done"
            /\ obs[t].outcome = "error"
            /\ obs[t].upload_posts = 0
            /\ obs[t].archive_calls = <<>>
            /\ obs[t].move_requests = <<>>

\* C14 witness: the attachment request of the 2nd message failed while the
\* message was still in the source folder, after PDFs of the 1st message had
\* been collected.
C14_Witness ==
    \E t \in Threads :
        /\ obs[t].fetch_failed
        /\ obs[t].att_fetches = 2
        /\ loc[t].pdf_attachments # <<>>
        /\ location[loc[t].messages[2]] = loc[t].folder_id

\* C15: a run asks for the folder list to resolve the source folder only
\* while that folder is unresolved, and to resolve the archive folder only
\* once (with the first archive candidate), not once per archived message.
C15_FoldersResolvedOnce ==
    \A t \in Threads :
        /\ pc[t] = "folders" => loc[t].folder_id = None
        /\ pc[t] = "archive_folders" => loc[t].j = 1

\* C16: the uploader is entered only in a run whose listed messages hold a
\* qualifying PDF; a run that listed messages none of which has one posts no
\* upload, calls archive_email for no message, requests no move and, with all
\* attachment requests answered, ends without error; and a run that got
\* through extraction with at least one qualifying PDF has posted the upload.
C16_UploadIffPdfFound ==
    \A t \in Threads :
        /\ (pc[t] = "upload" \/ obs[t].upload_posts > 0) =>
               SumQualifying(loc[t].messages) >= 1
        /\ (/\ obs[t].listed
            /\ loc[t].messages # <<>>
            /\ SumQualifying(loc[t].messages) = 0) =>
               /\ obs[t].upload_posts = 0
               /\ obs[t].archive_calls = <<>>
               /\ obs[t].move_requests = <<>>
               /\ (pc[t] = "done" /\ ~obs[t].fetch_failed) => obs[t].outcome = "ok"
        /\ (/\ pc[t] = "done"
            /\ obs[t].listed
            /\ ~obs[t].fetch_failed
            /\ SumQualifying(loc[t].messages) >= 1) => obs[t].upload_posts >= 1

\* C16 witness: a run listed 2 messages, fetched the attachments of both,
\* found no qualifying PDF and has ended without error.
C16_Witness ==
    \E t \in Threads :
        /\ pc[t] = "done"
        /\ obs[t].outcome = "ok"
        /\ Len(loc[t].messages) = 2
        /\ obs[t].att_fetches = 2
        /\ SumQualifying(loc[t].messages) = 0

\* The names of the qualifying attachments of each attachment list of the
\* mailbox, in order.
QualifyingNamesIn ==
    [l \in AttLists \cup {<<>>} |->
        LET q == SelectSeq(l, Qualifying) IN [k \in DOMAIN q |-> q[k].name]]

\* The names of the qualifying attachments of the messages ms, in order.
RECURSIVE ExpectedNames(_)
ExpectedNames(ms) ==
    IF ms = <<>> THEN <<>>
    ELSE QualifyingNamesIn[atts[Head(ms)]] \o ExpectedNames(Tail(ms))

\* The filenames of the parts of the multipart body built from the dict d.
PartNames(d) == [k \in DOMAIN d |-> d[k].value.filename]

\* C17: the uploader is entered only after the attachments of every listed
\* message were fetched, its batch holds exactly one part per qualifying
\* attachment of the listed messages (same names, same order), and it is
\* entered once: its POSTs are the attempts of one call, made before any
\* archive call.
C17_OneBatchWithEveryPdf ==
    \A t \in Threads :
        /\ (pc[t] = "upload" \/ obs[t].upload_posts > 0) =>
               /\ obs[t].att_fetches = Len(loc[t].messages)
               /\ ~obs[t].fetch_failed
               /\ PartNames(loc[t].pdf_attachments) = ExpectedNames(loc[t].messages)
        /\ obs[t].upload_posts <= max_retries
        /\ pc[t] = "upload" =>
               /\ obs[t].upload_posts = loc[t].attempt - 1
               /\ obs[t].archive_calls = <<>>

\* C17 witness: the upload was posted in a run that listed 2 messages, one
\* with 2 qualifying attachments and one with 1, in a batch of 3 parts.
C17_Witness ==
    \E t \in Threads :
        /\ obs[t].upload_posts >= 1
        /\ Len(loc[t].messages) = 2
        /\ Len(loc[t].pdf_attachments) = 3

\* Thread t takes the step.
Steps(t) == pc'[t] # pc[t] \/ loc'[t] # loc[t] \/ obs'[t] # obs[t]

\* How far a run at position p with locals l has got: the stages of main in
\* order, and within a stage the attempt or the index of the loop.
Progress(p, l) ==
    LET width == 2 * (max_retries + MaxMsgs) + 2 IN
    CASE p = "authenticate"    -> width + l.attempt
      [] p = "folders"         -> 2 * width + 2 * l.attempt
      [] p = "messages"        -> 2 * width + 2 * l.attempt + 1
      [] p = "attachments"     -> 3 * width + l.i
      [] p = "upload"          -> 4 * width + l.attempt
      [] p = "archive_folders" -> 5 * width + 2 * l.j
      [] p = "archive_move"    -> 5 * width + 2 * l.j + 1
      [] p = "done"            -> 6 * width
      [] OTHER                 -> 0

\* C18: no retry loop goes beyond attempt 3, every pass through a retry loop
\* is a new attempt, a successful upload POST leaves the loop at once without
\* a delay, and every run terminates: a run that has not ended can always
\* take its next step, and each of its steps brings it further towards its
\* end, which is a bounded number of steps away.
C18_BoundedRetriesAndTermination ==
    [][\A t \in Threads :
          /\ loc'[t].attempt <= max_retries
          /\ (Steps(t) /\ pc[t] \in {"authenticate", "upload"} /\ pc'[t] = pc[t]) =>
                 loc'[t].attempt = loc[t].attempt + 1
          /\ (Steps(t) /\ pc[t] \in {"folders", "messages"} /\ pc'[t] = "folders") =>
                 loc'[t].attempt = loc[t].attempt + 1
          /\ (Steps(t) /\ pc[t] = "upload" /\ obs'[t].upload_ok) =>
                 /\ pc'[t] # "upload"
                 /\ obs'[t].upload_posts = obs[t].upload_posts + 1
                 /\ obs'[t].upload_sleeps = obs[t].upload_sleeps
          /\ Running(t) => ENABLED RunStep(t)
          /\ (Steps(t) /\ Running(t)) =>
                 /\ Progress(pc'[t], loc'[t]) > Progress(pc[t], loc[t])
                 /\ Progress(pc'[t], loc'[t]) <= Progress("done", loc'[t])]_vars

\* C18 witness: the upload succeeded at its 2nd attempt, after one delay, and
\* the run has ended.
C18_Witness ==
    \E t \in Threads :
        /\ pc[t] = "done"
        /\ obs[t].upload_ok
        /\ obs[t].upload_posts = 2
        /\ obs[t].upload_sleeps = 1

\* C19: whatever request of a run fails, main catches the failure and
\* returns: a failed run is at the end of main, no thread is ended by it, and
\* the timer thread goes from the end of main through its countdown to the
\* head of its loop, where it can start the next run.
C19_MainNeverRaises ==
    [][\A t \in Threads :
          /\ obs'[t].outcome = "error" => pc'[t] = "done"
          /\ pc'[t] = "done" \/ pc'[t] \in {"idle", "loop"} \/ Running(t)'
          /\ pc["timer"] = "done" => ENABLED TimerCountdown
          /\ (Steps("timer") /\ pc["timer"] = "done") => pc'["timer"] = "loop"
          /\ (pc["timer"] = "loop" /\ runs < MaxRuns) => ENABLED TimerRun]_vars

\* C19 witness: a run of the timer thread has failed after a successful
\* upload (an archive request failed) and main is about to return, with a
\* further run still to come.
C19_Witness ==
    /\ pc["timer"] = "done"
    /\ obs["timer"].outcome = "error"
    /\ obs["timer"].upload_ok
    /\ runs < MaxRuns

\* The elements of the sequence q.
Range(q) == {q[k] : k \in DOMAIN q}

\* The ids of the folders named "Archiv" or "Archive".
ArchiveFolderIds ==
    {folders[k].id : k \in {h \in DOMAIN folders : folders[h].displayName \in ARCHIVE_NAMES}}

\* C20: a message that is in an archive folder when a run lists the source
\* folder is not in that run's listing, and a run collects PDFs, calls
\* archive_email and requests moves only for messages of its listing: a
\* message archived by an earlier run is not processed again.
C20_ArchivedNotReprocessed ==
    [][\A t \in Threads :
          /\ loc'[t].messages # loc[t].messages =>
                 \A m \in Range(loc'[t].messages) :
                     /\ location[m] \notin ArchiveFolderIds
                     /\ location[m] = FirstFolderId(folders, {FOLDER_NAME})
          /\ Range(loc'[t].message_ids_to_archive) \subseteq Range(loc'[t].messages)
          /\ Range(obs'[t].archive_calls) \subseteq Range(loc'[t].messages)
          /\ Range(obs'[t].move_requests) \subseteq Range(loc'[t].messages)
          /\ Len(loc'[t].pdf_attachments) <= SumQualifying(loc'[t].messages)]_vars

\* C20 witness: while the other thread is outside main, a run has listed the
\* source folder and got a message, and another message with PDFs, moved to
\* an archive folder before, is not in the listing.
C20_Witness ==
    \E t \in Threads :
        /\ \A u \in Threads \ {t} : pc[u] \in {"idle", "loop"}
        /\ pc[t] = "attachments"
        /\ obs[t].att_fetches = 0
        /\ \E m \in Msgs :
               /\ location[m] \in ArchiveFolderIds
               /\ HasQualifyingPdf(m)
               /\ m \notin Range(loc[t].messages)

====
